---- MODULE Spec2Model ----
(***************************************************************************)
(* Subscription service: HTTP handler -> service -> record store.         *)
(* Dates are strings in model.Subscription; a string is modelled by the   *)
(* sequence of its numeric fields in textual order: "2023-01-31" is       *)
(* <<2023, 1, 31>>, "01-2023" is <<1, 2023>>, "" is <<>>.  An instant     *)
(* (time.Time) is <<year, month, day, t>>, t = 0 for midnight UTC and     *)
(* t = 1 for any later time of that day.                                  *)
(***************************************************************************)
EXTENDS Integers, Sequences, FiniteSets, TLC

VARIABLES store, now, resp, inflight

vars == <<store, now, resp, inflight>>

\* A Go pointer: NilPtr, or Ptr(v) pointing at v
NilPtr == <<>>
Ptr(v) == <<v>>

\* Largest number of rows the table holds in the model.
MaxSubs == 2

\* end := time.Now().AddDate(10, 0, 0)
OpenEndedYears == 10

Ids == 1..MaxSubs

StatusOK == 200
StatusCreated == 201
StatusNoContent == 204
StatusBadRequest == 400
StatusNotFound == 404
StatusInternalServerError == 500

(***************************************************************************)
(* package time, as far as the service uses it                             *)
(***************************************************************************)
IsLeap(y) == (y % 4 = 0 /\ y % 100 # 0) \/ y % 400 = 0

DaysIn(y, m) ==
    IF m = 2 THEN (IF IsLeap(y) THEN 29 ELSE 28)
    ELSE IF m \in {4, 6, 9, 11} THEN 30 ELSE 31

\* time.Parse("2006-01-02", s): three fields, month and day in range.
ParseOk(s) ==
    /\ Len(s) = 3
    /\ s[2] \in 1..12
    /\ s[3] \in 1..DaysIn(s[1], s[2])

Parse(s) == <<s[1], s[2], s[3], 0>>

\* t.Before(u)
Before(t, u) ==
    \/ t[1] < u[1]
    \/ t[1] = u[1] /\ t[2] < u[2]
    \/ t[1] = u[1] /\ t[2] = u[2] /\ t[3] < u[3]
    \/ t[1] = u[1] /\ t[2] = u[2] /\ t[3] = u[3] /\ t[4] < u[4]

\* Day overflow rolls into the following months (Feb 31 -> Mar 3).
RECURSIVE NormDay(_, _, _, _)
NormDay(y, m, d, t) ==
    IF d <= DaysIn(y, m) THEN <<y, m, d, t>>
    ELSE IF m = 12 THEN NormDay(y + 1, 1, d - DaysIn(y, m), t)
    ELSE NormDay(y, m + 1, d - DaysIn(y, m), t)

\* t.AddDate(years, months, 0): time.Date normalises month, then day.
AddDate(t, years, months) ==
    LET mi == (t[2] - 1) + months
        y  == t[1] + years + (mi \div 12)
        m  == (mi % 12) + 1
    IN NormDay(y, m, t[3], t[4])

(***************************************************************************)
(* repository/postgres: the subscriptions table.  store maps the id of    *)
(* every present row to its columns.                                      *)
(***************************************************************************)
\* model.Subscription, as scanned from a row
Subscription(id) ==
    [id |-> id, serviceName |-> store[id].serviceName, price |-> store[id].price,
     userId |-> store[id].userId, startDate |-> store[id].startDate,
     endDate |-> store[id].endDate]

\* Column order of start_date / end_date against a bound value: field by
\* field, which is calendar order on dates.
RECURSIVE DateLE(_, _)
DateLE(a, b) ==
    IF a = <<>> THEN TRUE
    ELSE IF b = <<>> THEN FALSE
    ELSE IF Head(a) < Head(b) THEN TRUE
    ELSE IF Head(a) > Head(b) THEN FALSE
    ELSE DateLE(Tail(a), Tail(b))

\* squirrel.GtOrEq{"start_date": startDate}
StartDateCond(row, startDate) == DateLE(startDate, row.startDate)

\* Mutant: Lt in place of LtOrEq
EndDateCondStrict(row, endDate) ==
    row.endDate = NilPtr \/ (DateLE(row.endDate[1], endDate) /\ row.endDate[1] # endDate)

\* squirrel.Or{Eq{"end_date": nil}, LtOrEq{"end_date": endDate}}
EndDateCond(row, endDate) == row.endDate = NilPtr \/ DateLE(row.endDate[1], endDate)

\* Mutant: the optional filters joined by OR
WhereAnyFilter(row, userID, serviceName, startDate, endDate) ==
    /\ row.userId = userID
    /\ \/ serviceName = "" /\ startDate = <<>> /\ endDate = <<>>
       \/ serviceName # "" /\ row.serviceName = serviceName
       \/ startDate # <<>> /\ StartDateCond(row, startDate)
       \/ endDate # <<>> /\ EndDateCond(row, endDate)

\* The WHERE clause built by GetSubscriptionsForTotalCost
Where(row, userID, serviceName, startDate, endDate) ==
    /\ row.userId = userID
    /\ serviceName # "" => row.serviceName = serviceName
    /\ startDate # <<>> => StartDateCond(row, startDate)
    /\ endDate # <<>> => EndDateCond(row, endDate)

\* Ids of the rows the filtered query selects
Selected(userID, serviceName, startDate, endDate) ==
    {id \in DOMAIN store : Where(store[id], userID, serviceName, startDate, endDate)}

\* The query has no ORDER BY: rows come back in any order.
Orders(S) ==
    {q \in [1..Cardinality(S) -> S] : \A i, j \in 1..Cardinality(S) : q[i] = q[j] => i = j}

\* repo.GetSubscriptionsForTotalCost: the selected rows in the order ord
GetSubscriptionsForTotalCost(ord) == [i \in 1..Len(ord) |-> Subscription(ord[i])]

(***************************************************************************)
(* service.GetTotalCost                                                   *)
(***************************************************************************)
\* Mutant: monthlyCosts[month][year] = price
AddCostAssign(mc, month, year, price) ==
    LET inner == IF month \in DOMAIN mc THEN mc[month] ELSE <<>>
        added == IF year \in DOMAIN inner
                 THEN [inner EXCEPT ![year] = price]
                 ELSE inner @@ (year :> price)
    IN [k \in DOMAIN mc \cup {month} |-> IF k = month THEN added ELSE mc[k]]

\* monthlyCosts[month][year] += price, creating the inner map when absent
AddCost(mc, month, year, price) ==
    LET inner == IF month \in DOMAIN mc THEN mc[month] ELSE <<>>
        added == IF year \in DOMAIN inner
                 THEN [inner EXCEPT ![year] = @ + price]
                 ELSE inner @@ (year :> price)
    IN [k \in DOMAIN mc \cup {month} |-> IF k = month THEN added ELSE mc[k]]

\* Mutant: !d.After(end)
LoopCondInclusive(d, end) == ~Before(end, d)

\* The loop condition d.Before(end)
LoopCond(d, end) == Before(d, end)

\* for d := start; d.Before(end); d = d.AddDate(0, 1, 0)
RECURSIVE MonthLoop(_, _, _, _)
MonthLoop(d, end, price, mc) ==
    IF LoopCond(d, end)
    THEN MonthLoop(AddDate(d, 0, 1), end, price, AddCost(mc, d[2], d[1], price))
    ELSE mc

\* Mutant: AddDate(0, 10, 0)
CeilingMonths(t) == AddDate(t, 0, OpenEndedYears)

\* end of an open-ended subscription
Ceiling(t) == AddDate(t, OpenEndedYears, 0)

\* One iteration of "for _, sub := range subs": a date that does not parse
\* skips the record (continue).
RangeBody(sub, mc, t) ==
    IF ~ParseOk(sub.startDate) THEN mc
    ELSE IF sub.endDate # NilPtr /\ ~ParseOk(sub.endDate[1]) THEN mc
    ELSE MonthLoop(Parse(sub.startDate),
                   IF sub.endDate = NilPtr THEN Ceiling(t) ELSE Parse(sub.endDate[1]),
                   sub.price, mc)

\* Mutant: break in place of continue
RECURSIVE RangeSubsBreak(_, _, _, _)
RangeSubsBreak(subs, i, mc, t) ==
    IF i > Len(subs) THEN mc
    ELSE IF ~ParseOk(subs[i].startDate) THEN mc
    ELSE IF subs[i].endDate # NilPtr /\ ~ParseOk(subs[i].endDate[1]) THEN mc
    ELSE RangeSubsBreak(subs, i + 1, RangeBody(subs[i], mc, t), t)

\* for _, sub := range subs
RECURSIVE RangeSubs(_, _, _, _)
RangeSubs(subs, i, mc, t) ==
    IF i > Len(subs) THEN mc
    ELSE RangeSubs(subs, i + 1, RangeBody(subs[i], mc, t), t)

RECURSIVE SumOver(_, _)
SumOver(f, S) ==
    IF S = {} THEN 0
    ELSE LET k == CHOOSE x \in S : TRUE IN f[k] + SumOver(f, S \ {k})

\* for _, yearCosts := range monthlyCosts { for _, cost := range yearCosts {...} }
SumCosts(mc) ==
    LET perMonth == [m \in DOMAIN mc |-> SumOver(mc[m], DOMAIN mc[m])]
    IN SumOver(perMonth, DOMAIN mc)

\* The total service.GetTotalCost returns for the fetched subs at time t
TotalCost(subs, t) == SumCosts(RangeSubs(subs, 1, <<>>, t))

(***************************************************************************)
(* Requests the model sends                                               *)
(***************************************************************************)
Users == {"u1", "u2"}

\* The zero uuid, and a user_id / id text uuid.Parse rejects
NilUUID == "00000000"
BadUUID == "bad"

Row(name, price, user, start, end) ==
    [serviceName |-> name, price |-> price, userId |-> user,
     startDate |-> start, endDate |-> end]

\* Values of time.Now()
Clock == << <<2023, 3, 15, 1>>, <<2024, 2, 29, 1>> >>

\* Table contents the aggregation is run against
CostRows ==
    { Row("Netflix", 500, "u1", <<2023, 1, 1>>, Ptr(<<2023, 3, 1>>)),
      Row("Spotify", 300, "u1", <<2023, 2, 1>>, Ptr(<<2023, 6, 1>>)),
      Row("Netflix", 500, "u1", <<2023, 3, 1>>, Ptr(<<2023, 6, 1>>)),
      Row("Netflix", 0, "u1", <<2023, 1, 1>>, Ptr(<<2023, 1, 1>>)),
      Row("Spotify", 300, "u1", <<2023, 6, 1>>, Ptr(<<2023, 1, 1>>)),
      Row("Spotify", 300, "u1", <<2023, 1, 31>>, Ptr(<<2023, 6, 1>>)),
      Row("Netflix", 500, "u1", <<2033, 1, 1>>, NilPtr),
      Row("Netflix", 500, "u1", <<2033, 1, 1>>, Ptr(<<2033, 2, 1>>)),
      Row("Netflix", 500, "u1", <<2033, 1, 1>>, Ptr(<<2033, 6, 1>>)),
      Row("Spotify", 300, "u1", <<2034, 6, 1>>, NilPtr),
      Row("Spotify", 300, "u1", <<2034, 6, 1>>, Ptr(<<2034, 8, 1>>)),
      Row("Spotify", 300, "u1", <<2033, 2, 1>>, NilPtr),
      Row("Netflix", 500, "u1", <<1, 2023>>, NilPtr),
      Row("Spotify", 300, "u1", <<2023, 1, 1>>, Ptr(<<3, 2023>>)),
      Row("Netflix", 500, "u2", <<2023, 1, 1>>, Ptr(<<2023, 3, 1>>)) }

\* total_cost queries: <<user_id, service_name, start_date, end_date>>
CostQueries ==
    (Users \X {"", "Netflix"} \X {<<>>, <<2023, 2, 1>>} \X {<<>>, <<2023, 6, 1>>})
       \cup {<<BadUUID, "", <<>>, <<>>>>}

Queries == {<<"u1", "", <<>>, <<>>>>, <<BadUUID, "", <<>>, <<>>>>,
            <<"u1", "Spotify", <<2033, 1, 1>>, <<2033, 6, 1>>>>}

\* POST bodies (model.CreateSubscriptionRequest)
CreateRequests ==
    { Row("Netflix", 500, "u1", <<2033, 1, 1>>, NilPtr),
      Row("Netflix", 500, "u1", <<2033, 2, 1>>, Ptr(<<2033, 6, 1>>)),
      Row("", 500, "u1", <<2033, 1, 1>>, NilPtr),
      Row("Netflix", 0, "u1", <<2033, 1, 1>>, NilPtr),
      Row("Netflix", -1, "u1", <<2033, 1, 1>>, NilPtr),
      Row("Netflix", 500, BadUUID, <<2033, 1, 1>>, NilPtr),
      Row("Netflix", 500, NilUUID, <<2033, 1, 1>>, NilPtr),
      Row("Netflix", 500, "u1", <<>>, NilPtr) }

\* PUT bodies (model.UpdateSubscriptionRequest): every field is a pointer,
\* nil when the body does not supply it; json tells whether the body decodes.
UpdateRequest(json, name, price, start, end) ==
    [json |-> json, serviceName |-> name, price |-> price, startDate |-> start,
     endDate |-> end]

UpdateRequests ==
    { UpdateRequest(FALSE, NilPtr, NilPtr, NilPtr, NilPtr),
      UpdateRequest(TRUE, NilPtr, NilPtr, NilPtr, NilPtr),
      UpdateRequest(TRUE, NilPtr, Ptr(700), NilPtr, NilPtr),
      UpdateRequest(TRUE, Ptr("Spotify"), NilPtr, NilPtr, NilPtr),
      UpdateRequest(TRUE, NilPtr, NilPtr, Ptr(<<2033, 2, 1>>), Ptr(<<2033, 6, 1>>)) }

\* The {id} path parameter: the text of an id, or 0 for text that is no uuid
IdParams == 0..MaxSubs

\* uuid.Parse(c.Param("id")) succeeds
UUIDParseOk(idParam) == idParam \in Ids

(***************************************************************************)
(* Errors.  fail is the index of the database call of a request that      *)
(* returns an error (0: none does).                                       *)
(***************************************************************************)
NoErr == ""
ErrNotFound == "not found"
ErrDB == "db error"

\* Mutant: pgx.ErrNoRows is wrapped like any other error
RepoGetByIDWrapped(id, failed) ==
    IF failed \/ id \notin DOMAIN store THEN ErrDB ELSE NoErr

\* The error of repo.GetByID: pgx.ErrNoRows becomes ErrNotFound
RepoGetByID(id, failed) ==
    IF failed THEN ErrDB
    ELSE IF id \notin DOMAIN store THEN ErrNotFound
    ELSE NoErr

\* repo.Update: UPDATE ... SET every column WHERE id = sub.ID
RepoUpdate(sub) ==
    [k \in DOMAIN store |->
        IF k = sub.id
        THEN Row(sub.serviceName, sub.price, sub.userId, sub.startDate, sub.endDate)
        ELSE store[k]]

\* repo.Delete: DELETE ... WHERE id = id
RepoDelete(id) == [k \in DOMAIN store \ {id} |-> store[k]]

\* The error of service.Update: GetByID, then repo.Update
ServiceUpdate(id, fail) ==
    LET e == RepoGetByID(id, fail = 2)
    IN IF e # NoErr THEN e ELSE IF fail = 3 THEN ErrDB ELSE NoErr

\* The error of service.Delete: GetByID, then repo.Delete
ServiceDelete(id, fail) ==
    LET e == RepoGetByID(id, fail = 1)
    IN IF e # NoErr THEN e ELSE IF fail = 2 THEN ErrDB ELSE NoErr

\* Mutant: the fetch error is logged and dropped
ServiceGetTotalCostSwallow(fetchErr, subs) ==
    [err |-> NoErr, total |-> TotalCost(subs, now)]

\* service.GetTotalCost: the error and the total it returns, given the error
\* and the rows of the filtered fetch
ServiceGetTotalCost(fetchErr, subs) ==
    IF fetchErr # NoErr
    THEN [err |-> fetchErr, total |-> 0]
    ELSE [err |-> NoErr, total |-> TotalCost(subs, now)]

(***************************************************************************)
(* handler/http: one action per endpoint.  resp is the response of the    *)
(* last request, with the request it answers; resp.err is the error the   *)
(* record store reported while the request was served.                    *)
(***************************************************************************)
Response(op, status, id, body, query, total, subs, err) ==
    [op |-> op, status |-> status, id |-> id, body |-> body, query |-> query,
     total |-> total, subs |-> subs, err |-> err]

ErrorResponse(op, status, id, body, query, err) ==
    Response(op, status, id, body, query, 0, <<>>, err)

\* binding:"required" rejects the zero value; gte=0 rejects negatives.
BindCreate(req) ==
    /\ req.userId # BadUUID
    /\ req.serviceName # ""
    /\ req.price # 0 /\ req.price >= 0
    /\ req.userId # NilUUID
    /\ req.startDate # <<>>

\* newId is the id the table generates for the new row.
Create(req, fail, newId) ==
    /\ IF ~BindCreate(req)
       THEN /\ resp' = ErrorResponse("create", StatusBadRequest, 0, req, <<>>, NoErr)
            /\ UNCHANGED store
       ELSE IF fail = 1
       THEN /\ resp' = ErrorResponse("create", StatusInternalServerError, 0, req, <<>>, ErrDB)
            /\ UNCHANGED store
       ELSE /\ newId \notin DOMAIN store
            /\ store' = [k \in DOMAIN store \cup {newId} |->
                           IF k = newId
                           THEN Row(req.serviceName, req.price, req.userId,
                                    req.startDate, req.endDate)
                           ELSE store[k]]
            /\ resp' = Response("create", StatusCreated, newId, req, <<>>, 0, <<>>, NoErr)
    /\ UNCHANGED <<now, inflight>>

\* Handler.GetByID and Handler.Update answer an error of service.GetByID
GetStatus(err) ==
    IF err = ErrNotFound THEN StatusNotFound ELSE StatusInternalServerError

GetByID(idParam, fail) ==
    /\ resp' =
         IF ~UUIDParseOk(idParam)
         THEN ErrorResponse("get", StatusBadRequest, idParam, <<>>, <<>>, NoErr)
         ELSE LET err == RepoGetByID(idParam, fail = 1)
              IN IF err # NoErr
                 THEN ErrorResponse("get", GetStatus(err), idParam, <<>>, <<>>, err)
                 ELSE Response("get", StatusOK, idParam, <<>>, <<>>, 0,
                               <<Subscription(idParam)>>, NoErr)
    /\ UNCHANGED <<store, now, inflight>>

\* The rows come back in table order ord; limit and offset cut the result.
List(limit, offset, fail, ord) ==
    /\ ord \in Orders(DOMAIN store)
    /\ resp' =
         IF fail = 1
         THEN ErrorResponse("list", StatusInternalServerError, 0, <<>>,
                            <<limit, offset>>, ErrDB)
         ELSE Response("list", StatusOK, 0, <<>>, <<limit, offset>>, 0,
                       LET all == [i \in 1..Len(ord) |-> Subscription(ord[i])]
                       IN SubSeq(all, offset + 1,
                                 IF offset + limit < Len(all) THEN offset + limit ELSE Len(all)),
                       NoErr)
    /\ UNCHANGED <<store, now, inflight>>

\* Mutant: every field is taken from the body, supplied or not
ApplyUpdateReplace(sub, req) ==
    [sub EXCEPT
        !.serviceName = IF req.serviceName # NilPtr THEN req.serviceName[1] ELSE "",
        !.price = IF req.price # NilPtr THEN req.price[1] ELSE 0,
        !.startDate = IF req.startDate # NilPtr THEN req.startDate[1] ELSE <<>>,
        !.endDate = req.endDate]

\* The fields of the PUT body that are supplied overwrite those of sub.
ApplyUpdate(sub, req) ==
    [sub EXCEPT
        !.serviceName = IF req.serviceName # NilPtr THEN req.serviceName[1] ELSE @,
        !.price = IF req.price # NilPtr THEN req.price[1] ELSE @,
        !.startDate = IF req.startDate # NilPtr THEN req.startDate[1] ELSE @,
        !.endDate = IF req.endDate # NilPtr THEN req.endDate ELSE @]

Update(idParam, req, fail) ==
    /\ IF ~UUIDParseOk(idParam) \/ ~req.json
       THEN /\ resp' = ErrorResponse("update", StatusBadRequest, idParam, req, <<>>, NoErr)
            /\ UNCHANGED store
       ELSE LET err == RepoGetByID(idParam, fail = 1)
            IN IF err # NoErr
               THEN /\ resp' = ErrorResponse("update", GetStatus(err), idParam, req, <<>>, err)
                    /\ UNCHANGED store
               ELSE LET uerr == ServiceUpdate(idParam, fail)
                    IN IF uerr # NoErr
                       THEN /\ resp' = ErrorResponse("update", StatusInternalServerError,
                                                     idParam, req, <<>>, uerr)
                            /\ UNCHANGED store
                       ELSE /\ store' = RepoUpdate(ApplyUpdate(Subscription(idParam), req))
                            /\ resp' = Response("update", StatusNoContent, idParam, req,
                                                <<>>, 0, <<>>, NoErr)
    /\ UNCHANGED <<now, inflight>>

\* Handler.Delete answers every error of service.Delete alike
DeleteStatus(err) == StatusInternalServerError

Delete(idParam, fail) ==
    /\ IF ~UUIDParseOk(idParam)
       THEN /\ resp' = ErrorResponse("delete", StatusBadRequest, idParam, <<>>, <<>>, NoErr)
            /\ UNCHANGED store
       ELSE LET err == ServiceDelete(idParam, fail)
            IN IF err # NoErr
               THEN /\ resp' = ErrorResponse("delete", DeleteStatus(err), idParam,
                                             <<>>, <<>>, err)
                    /\ UNCHANGED store
               ELSE /\ store' = RepoDelete(idParam)
                    /\ resp' = Response("delete", StatusNoContent, idParam, <<>>, <<>>,
                                        0, <<>>, NoErr)
    /\ UNCHANGED <<now, inflight>>

GetTotalCost(q, fail, ord) ==
    /\ ord \in Orders(Selected(q[1], q[2], q[3], q[4]))
    /\ resp' =
         IF q[1] = BadUUID
         THEN ErrorResponse("total_cost", StatusBadRequest, 0, <<>>, q, NoErr)
         ELSE LET fetchErr == IF fail = 1 THEN ErrDB ELSE NoErr
                  subs == IF fail = 1 THEN <<>> ELSE GetSubscriptionsForTotalCost(ord)
                  res == ServiceGetTotalCost(fetchErr, subs)
              IN IF res.err # NoErr
                 THEN ErrorResponse("total_cost", StatusInternalServerError, 0, <<>>, q,
                                    fetchErr)
                 ELSE Response("total_cost", StatusOK, 0, <<>>, q, res.total, subs, fetchErr)
    /\ UNCHANGED <<store, now, inflight>>

(***************************************************************************)
(* Handler.Update as the statements it runs against the table, for PUT    *)
(* requests served at the same time.  inflight[p] holds the locals of the *)
(* request p: where it stands (pc), id, req (body), sub, and the status   *)
(* it answered.                                                           *)
(***************************************************************************)
Procs == {"p1", "p2"}

IdleRequest ==
    [pc |-> "idle", id |-> 0,
     body |-> UpdateRequest(FALSE, NilPtr, NilPtr, NilPtr, NilPtr),
     sub |-> NilPtr, status |-> 0]

\* The request p ends with the given status.
Answer(p, status) ==
    inflight' = [inflight EXCEPT ![p].pc = "done", ![p].status = status]

\* uuid.Parse(c.Param("id")) and c.ShouldBindJSON(&req)
UpdateBind(p, idParam, req) ==
    /\ inflight[p].pc = "idle"
    /\ IF ~UUIDParseOk(idParam) \/ ~req.json
       THEN inflight' = [inflight EXCEPT ![p].pc = "done", ![p].id = idParam,
                                         ![p].body = req,
                                         ![p].status = StatusBadRequest]
       ELSE inflight' = [inflight EXCEPT ![p].pc = "bound", ![p].id = idParam,
                                         ![p].body = req]
    /\ UNCHANGED <<store, now, resp>>

\* sub, err := h.service.GetByID(id), then the supplied fields are set on sub
UpdateGetByID(p, fail) ==
    /\ inflight[p].pc = "bound"
    /\ LET err == RepoGetByID(inflight[p].id, fail = 1)
       IN IF err # NoErr
          THEN Answer(p, GetStatus(err))
          ELSE inflight' =
                 [inflight EXCEPT
                    ![p].pc = "applied",
                    ![p].sub = Ptr(ApplyUpdate(Subscription(inflight[p].id),
                                               inflight[p].body))]
    /\ UNCHANGED <<store, now, resp>>

\* service.Update: _, err := s.repo.GetByID(ctx, sub.ID)
UpdateServiceGetByID(p, fail) ==
    /\ inflight[p].pc = "applied"
    /\ LET err == RepoGetByID(inflight[p].id, fail = 1)
       IN IF err # NoErr
          THEN Answer(p, StatusInternalServerError)
          ELSE inflight' = [inflight EXCEPT ![p].pc = "checked"]
    /\ UNCHANGED <<store, now, resp>>

\* service.Update: s.repo.Update(ctx, sub) writes every column of sub
UpdateRepoUpdate(p, fail) ==
    /\ inflight[p].pc = "checked"
    /\ IF fail = 1
       THEN /\ Answer(p, StatusInternalServerError)
            /\ UNCHANGED store
       ELSE /\ store' = RepoUpdate(inflight[p].sub[1])
            /\ Answer(p, StatusNoContent)
    /\ UNCHANGED <<now, resp>>

NoResponse == ErrorResponse("none", 0, 0, <<>>, <<>>, NoErr)

(***************************************************************************)
(* Spec: the service behind its HTTP endpoints, from an empty table.      *)
(***************************************************************************)
Init ==
    /\ store = <<>>
    /\ now = Clock[1]
    /\ resp = NoResponse
    /\ inflight = [p \in Procs |-> IdleRequest]

Next ==
    \/ \E req \in CreateRequests, fail \in 0..1, newId \in Ids : Create(req, fail, newId)
    \/ \E idParam \in IdParams, fail \in 0..1 : GetByID(idParam, fail)
    \/ \E page \in {<<10, 0>>, <<1, 1>>}, fail \in 0..1, ord \in Orders(DOMAIN store) :
          List(page[1], page[2], fail, ord)
    \/ \E idParam \in IdParams, req \in UpdateRequests, fail \in 0..3 :
          Update(idParam, req, fail)
    \/ \E idParam \in IdParams, fail \in 0..2 : Delete(idParam, fail)
    \/ \E q \in Queries, fail \in 0..1 :
          \E ord \in Orders(Selected(q[1], q[2], q[3], q[4])) : GetTotalCost(q, fail, ord)

Spec == Init /\ [][Next]_vars

(***************************************************************************)
(* SpecCost: one total_cost request, at some time, against a table that   *)
(* already holds rows.                                                    *)
(***************************************************************************)
InitCost ==
    /\ \E n \in 0..MaxSubs : store \in [1..n -> CostRows]
    /\ \E i \in 1..Len(Clock) : now = Clock[i]
    /\ resp = NoResponse
    /\ inflight = [p \in Procs |-> IdleRequest]

NextCost ==
    /\ resp = NoResponse
    /\ \E q \in CostQueries, fail \in 0..1 :
          \E ord \in Orders(Selected(q[1], q[2], q[3], q[4])) : GetTotalCost(q, fail, ord)

SpecCost == InitCost /\ [][NextCost]_vars

(***************************************************************************)
(* Properties                                                             *)
(***************************************************************************)
TotalCostOK == resp.op = "total_cost" /\ resp.status = StatusOK

\* Both dates of sub parse (an absent end date counts as parsing)
DatesParse(sub) ==
    /\ ParseOk(sub.startDate)
    /\ sub.endDate # NilPtr => ParseOk(sub.endDate[1])

\* What a record contributes when it is the only one fetched
Alone(sub) == TotalCost(<<sub>>, now)

\* Months since year 0 of a "YYYY-MM-DD" string or of an instant
MonthIndex(d) == d[1] * 12 + d[2]

\* A closed record on the first of a month at both ends, start <= end
MonthAligned(sub) ==
    /\ sub.endDate # NilPtr /\ DatesParse(sub)
    /\ sub.startDate[3] = 1 /\ sub.endDate[1][3] = 1
    /\ MonthIndex(sub.startDate) <= MonthIndex(sub.endDate[1])

\* C1: when the fetch returns exactly one subscription, with price >= 0 and
\* first-of-month start and end dates, start <= end, the total is the price
\* times the number of months from the start month up to, and not including,
\* the end month (the loop's range rule d < end).
C1_SingleSubscriptionCost ==
    (TotalCostOK /\ Len(resp.subs) = 1 /\ MonthAligned(resp.subs[1])
        /\ resp.subs[1].price >= 0)
    => resp.total = resp.subs[1].price
                      * (MonthIndex(resp.subs[1].endDate[1]) - MonthIndex(resp.subs[1].startDate))

C1_Witness ==
    /\ TotalCostOK /\ Len(resp.subs) = 1 /\ MonthAligned(resp.subs[1])
    /\ resp.subs[1].price = 300
    /\ resp.subs[1].startDate = <<2023, 2, 1>> /\ resp.subs[1].endDate = Ptr(<<2023, 6, 1>>)
    /\ resp.total = 1200

\* The user's only subscription is Netflix, 500, 2023-01 to 2023-03, and
\* the query has no start filter and an end filter, if any, past the window.
NetflixScenario ==
    /\ TotalCostOK
    /\ resp.query[3] = <<>>
    /\ Cardinality({id \in DOMAIN store : store[id].userId = resp.query[1]}) = 1
    /\ Len(resp.subs) = 1
    /\ resp.subs[1].serviceName = "Netflix" /\ resp.subs[1].price = 500
    /\ resp.subs[1].startDate = <<2023, 1, 1>>
    /\ resp.subs[1].endDate = Ptr(<<2023, 3, 1>>)

\* C2: for the Netflix scenario GetTotalCost returns 1500: the months
\* 2023-01, 2023-02 and 2023-03 are all billed.
C2_NetflixScenarioTotal == NetflixScenario => resp.total = 1500

\* The index sets of the fetched records
Indices == 1..Len(resp.subs)

\* The fetched records at the indices S, in fetch order
RECURSIVE Pick(_, _)
Pick(S, i) ==
    IF i > Len(resp.subs) THEN <<>>
    ELSE (IF i \in S THEN <<resp.subs[i]>> ELSE <<>>) \o Pick(S, i + 1)

\* The (month, year) pairs a record is billed for
BilledMonths(sub) ==
    LET mc == RangeSubs(<<sub>>, 1, <<>>, now)
    IN {<<m, y>> \in (1..12) \X (2023..2035) : m \in DOMAIN mc /\ y \in DOMAIN mc[m]}

\* C3: the total over the fetched records is the sum of the totals of any
\* two parts A and B they are split into, whether or not A and B are billed
\* for the same months.
C3_Additive ==
    TotalCostOK =>
        \A A \in SUBSET Indices :
            resp.total = TotalCost(Pick(A, 1), now) + TotalCost(Pick(Indices \ A, 1), now)

C3_Witness ==
    /\ TotalCostOK /\ Len(resp.subs) = 2
    /\ BilledMonths(resp.subs[1]) \cap BilledMonths(resp.subs[2]) # {}
    /\ Alone(resp.subs[1]) > 0 /\ Alone(resp.subs[2]) > 0
    /\ resp.subs[1].price # resp.subs[2].price
    /\ resp.total = Alone(resp.subs[1]) + Alone(resp.subs[2])

\* An open-ended record with a start date that parses and a price > 0
OpenEnded(sub) == sub.endDate = NilPtr /\ ParseOk(sub.startDate) /\ sub.price > 0

\* A record with an end date, the same start and price as sub
SameStartClosed(sub, other) ==
    /\ other.endDate # NilPtr /\ ParseOk(other.endDate[1])
    /\ other.startDate = sub.startDate /\ other.price = sub.price

TenYearsOn == NormDay(now[1] + 10, now[2], now[3], now[4])

\* The months from a first-of-month start up to the instant c
MonthsUpTo(start, c) ==
    LET n == MonthIndex(c) - MonthIndex(start) + (IF c[3] > 1 \/ c[4] > 0 THEN 1 ELSE 0)
    IN IF n > 0 THEN n ELSE 0

RECURSIVE SumAlone(_)
SumAlone(i) ==
    IF i > Len(resp.subs) THEN 0
    ELSE (IF DatesParse(resp.subs[i]) THEN Alone(resp.subs[i]) ELSE 0) + SumAlone(i + 1)

\* C5: a fetched record with a date that does not parse contributes zero,
\* and the total is the sum of what every other fetched record contributes
\* alone; the request succeeds.
C5_ParseErrorSkipped ==
    (resp.op = "total_cost" /\ resp.err = NoErr /\ resp.query[1] # BadUUID)
    => /\ resp.status = StatusOK
       /\ \A i \in Indices : ~DatesParse(resp.subs[i]) => Alone(resp.subs[i]) = 0
       /\ resp.total = SumAlone(1)

C5_Witness ==
    /\ TotalCostOK /\ Len(resp.subs) = 2
    /\ ~DatesParse(resp.subs[1]) /\ DatesParse(resp.subs[2])
    /\ resp.total = Alone(resp.subs[2]) /\ resp.total > 0

\* C6: when the filtered fetch fails the endpoint answers 500, and no total
\* and no records are reported.
C6_FetchErrorPropagates ==
    (resp.op = "total_cost" /\ resp.err # NoErr)
    => resp.status = StatusInternalServerError /\ resp.total = 0 /\ resp.subs = <<>>

C6_Witness ==
    /\ resp.op = "total_cost" /\ resp.err = ErrDB
    /\ resp.status = StatusInternalServerError
    /\ Selected(resp.query[1], resp.query[2], resp.query[3], resp.query[4]) # {}

\* The ids of the fetched records
FetchedIds == {resp.subs[i].id : i \in Indices}

AllFilters == resp.query[2] # "" /\ resp.query[3] # <<>> /\ resp.query[4] # <<>>

\* C7: the records fetched with all three filters are among those selected
\* by each filter alone.
C7_FilterConjunctive ==
    (TotalCostOK /\ AllFilters)
    => /\ FetchedIds \subseteq Selected(resp.query[1], resp.query[2], <<>>, <<>>)
       /\ FetchedIds \subseteq Selected(resp.query[1], "", resp.query[3], <<>>)
       /\ FetchedIds \subseteq Selected(resp.query[1], "", <<>>, resp.query[4])

C7_Witness ==
    /\ TotalCostOK /\ AllFilters /\ FetchedIds # {}
    /\ FetchedIds # Selected(resp.query[1], resp.query[2], <<>>, <<>>)
    /\ FetchedIds # Selected(resp.query[1], "", resp.query[3], <<>>)

\* C8: a record of the user is fetched exactly when its service name equals
\* a supplied service_name, its start date is >= a supplied start_date, and
\* its end date is absent or <= a supplied end_date; an empty filter imposes
\* nothing.
C8_FilterBounds ==
    TotalCostOK =>
        FetchedIds =
          {id \in DOMAIN store :
              /\ store[id].userId = resp.query[1]
              /\ resp.query[2] = "" \/ store[id].serviceName = resp.query[2]
              /\ resp.query[3] = <<>> \/ DateLE(resp.query[3], store[id].startDate)
              /\ \/ resp.query[4] = <<>>
                 \/ store[id].endDate = NilPtr
                 \/ DateLE(store[id].endDate[1], resp.query[4])}

C8_Witness ==
    /\ TotalCostOK /\ resp.query[4] # <<>> /\ resp.query[3] = <<>> /\ resp.query[2] = ""
    /\ \E i \in Indices : resp.subs[i].endDate = Ptr(resp.query[4])
    /\ \E id \in DOMAIN store : store[id].userId = resp.query[1] /\ id \notin FetchedIds

\* A PUT body that supplies price and nothing else
PriceOnly(req) ==
    /\ req.json /\ req.price # NilPtr
    /\ req.serviceName = NilPtr /\ req.startDate = NilPtr /\ req.endDate = NilPtr

\* C9: a successful update that supplies only price sets that record's price
\* and changes nothing else in the table.
C9_PriceOnlyUpdate ==
    [][(resp'.op = "update" /\ resp'.status = StatusNoContent /\ PriceOnly(resp'.body))
       => /\ resp'.id \in DOMAIN store
          /\ store' = [store EXCEPT ![resp'.id].price = resp'.body.price[1]]]_vars

C9_Witness ==
    /\ resp.op = "update" /\ resp.status = StatusNoContent /\ PriceOnly(resp.body)
    /\ store[resp.id].price = resp.body.price[1]
    /\ store[resp.id].endDate # NilPtr
    /\ \E id \in DOMAIN store : id # resp.id /\ store[id].price # resp.body.price[1]

\* C10: a NotFound outcome of the record store is answered with 404.
C10_NotFoundIs404 == resp.err = ErrNotFound => resp.status = StatusNotFound

\* C11: with the database answering, deleting an id that is not in the
\* table succeeds or returns NotFound, leaves the table as it was, and a
\* second delete of the id has the same outcome.
C11_DeleteAbsent ==
    [][\A id \in Ids :
          (id \notin DOMAIN store /\ Delete(id, 0))
          => /\ resp'.err \in {NoErr, ErrNotFound}
             /\ store' = store
             /\ ServiceDelete(id, 0)' = resp'.err]_vars

C11_Witness ==
    /\ resp.op = "delete" /\ resp.err = ErrNotFound
    /\ resp.id \in Ids /\ resp.id \notin DOMAIN store
    /\ DOMAIN store # {}

(***************************************************************************)
(* SpecPrices: create, update, delete and total_cost requests, with PUT   *)
(* bodies that carry a negative price.                                    *)
(***************************************************************************)
PriceUpdateRequests ==
    { UpdateRequest(FALSE, NilPtr, NilPtr, NilPtr, NilPtr),
      UpdateRequest(TRUE, NilPtr, Ptr(-1), NilPtr, NilPtr),
      UpdateRequest(TRUE, NilPtr, Ptr(0), NilPtr, NilPtr) }

NextPrices ==
    \/ \E req \in CreateRequests, fail \in 0..1, newId \in Ids : Create(req, fail, newId)
    \/ \E idParam \in IdParams, req \in PriceUpdateRequests, fail \in 0..3 :
          Update(idParam, req, fail)
    \/ \E idParam \in IdParams, fail \in 0..2 : Delete(idParam, fail)
    \/ \E q \in Queries, fail \in 0..1 :
          \E ord \in Orders(Selected(q[1], q[2], q[3], q[4])) : GetTotalCost(q, fail, ord)

SpecPrices == Init /\ [][NextPrices]_vars

\* C12: every stored subscription has price >= 0.
C12_PriceNonNegative == \A id \in DOMAIN store : store[id].price >= 0

\* C13: a successful GetTotalCost returns a total >= 0.
C13_TotalNonNegative == TotalCostOK => resp.total >= 0

\* The create requests the claim accepts: serviceName non-empty, price >= 0,
\* userId a well-formed uuid, startDate present
CreateAcceptable(req) ==
    /\ req.serviceName # ""
    /\ req.price >= 0
    /\ req.userId # BadUUID
    /\ req.startDate # <<>>

\* C14: with the database answering, a create request is answered 201 and
\* its record stored exactly when it is acceptable, price 0 included, and
\* is answered 400 otherwise.
C14_CreateValidation ==
    (resp.op = "create" /\ resp.err = NoErr)
    => IF CreateAcceptable(resp.body)
       THEN /\ resp.status = StatusCreated
            /\ resp.id \in DOMAIN store /\ store[resp.id] = resp.body
       ELSE resp.status = StatusBadRequest

\* A fetched record with dates that parse, an end date after its start date
\* and a price > 0
Billable(sub) ==
    /\ sub.endDate # NilPtr /\ DatesParse(sub)
    /\ Before(Parse(sub.startDate), Parse(sub.endDate[1]))
    /\ sub.price > 0

\* What the loop adds for sub in calendar month i (months since year 0)
BilledIn(sub, i) ==
    LET mc == RangeSubs(<<sub>>, 1, <<>>, now)
        m == ((i - 1) % 12) + 1
        y == (i - 1) \div 12
    IN IF m \in DOMAIN mc /\ y \in DOMAIN mc[m] THEN mc[m][y] ELSE 0

\* C15: whatever the day of the start date, every calendar month from the
\* start month up to the end month is billed exactly once, and the end
\* month is not billed twice.
C15_EveryMonthOnce ==
    TotalCostOK =>
        \A k \in Indices :
            Billable(resp.subs[k])
            => /\ \A i \in MonthIndex(resp.subs[k].startDate)
                            ..(MonthIndex(resp.subs[k].endDate[1]) - 1) :
                     BilledIn(resp.subs[k], i) = resp.subs[k].price
               /\ BilledIn(resp.subs[k], MonthIndex(resp.subs[k].endDate[1]))
                     \in {0, resp.subs[k].price}

(* SpecConc: rows are created, and two PUT requests are served at the same time, one statement against the table at a time. *)
ConcCreateRequests == {req \in CreateRequests : BindCreate(req) /\ req.endDate = NilPtr}

ConcUpdateRequests ==
    { UpdateRequest(TRUE, NilPtr, Ptr(700), NilPtr, NilPtr),
      UpdateRequest(TRUE, Ptr("Spotify"), NilPtr, NilPtr, NilPtr) }

NextConc ==
    \/ \E req \in ConcCreateRequests, newId \in Ids : Create(req, 0, newId)
    \/ \E p \in Procs, idParam \in IdParams, req \in ConcUpdateRequests :
          UpdateBind(p, idParam, req)
    \/ \E p \in Procs, fail \in 0..1 : UpdateGetByID(p, fail)
    \/ \E p \in Procs, fail \in 0..1 : UpdateServiceGetByID(p, fail)
    \/ \E p \in Procs, fail \in 0..1 : UpdateRepoUpdate(p, fail)

SpecConc == Init /\ [][NextConc]_vars

NameOnly(req) ==
    /\ req.json /\ req.serviceName # NilPtr
    /\ req.price = NilPtr /\ req.startDate = NilPtr /\ req.endDate = NilPtr

\* C16: when a price-only and a serviceName-only PUT for the same existing
\* subscription have both been answered 204, the stored record carries
\* the new price and the new serviceName.
C16_NoLostUpdate ==
    \A p, q \in Procs :
        ( /\ inflight[p].pc = "done" /\ inflight[p].status = StatusNoContent
          /\ inflight[q].pc = "done" /\ inflight[q].status = StatusNoContent
          /\ inflight[p].id = inflight[q].id
          /\ PriceOnly(inflight[p].body) /\ NameOnly(inflight[q].body) )
        => /\ inflight[p].id \in DOMAIN store
           /\ store[inflight[p].id].price = inflight[p].body.price[1]
           /\ store[inflight[p].id].serviceName = inflight[q].body.serviceName[1]

====
